---- MODULE Spec2Model ----
(***************************************************************************)
(* Model of src/chardev.c, a Linux character-device driver template.  The  *)
(* file holds three builds of the driver, one after the other:             *)
(*   variant "A" (lines 1-135):   exclusive open, buffer allocated on open *)
(*                                and freed on release, write at offset 0; *)
(*   variant "B" (lines 137-344): buffer allocated at module init, cursor  *)
(*                                tracking read / write / llseek;          *)
(*   variant "C" (lines 346-435): exclusive open only, no release.         *)
(*                                                                         *)
(* Machine integers.  The build is LP64: size_t is an unsigned and loff_t  *)
(* a signed 64-bit word.  A word near 0 or near 2^64 is written as the     *)
(* integer of its two's complement reading, so -1 is the size_t 2^64 - 1,  *)
(* and + and - on such integers are + and - modulo 2^64.  An llseek offset *)
(* may also lie near +-2^63: it is a record [hi, lo] that stands for       *)
(* hi * 2^63 + lo.                                                         *)
(***************************************************************************)
EXTENDS Integers, Sequences, FiniteSets, TLC

\* ---------------------------------------------------------------- bounds
NThreads == 2       \* concurrent callers
MaxCount == 20      \* largest small byte count given to read / write
MaxWrap == 3        \* counts 2^64 - 1 .. 2^64 - MaxWrap are given too
MaxOver == 3        \* caller-supplied cursors reach capacity + MaxOver
MaxOff == 18        \* llseek offsets -MaxOff .. MaxOff (and the 2^63 edges)
MaxWhence == 3      \* llseek origins 0 .. MaxWhence
MaxRun == 18        \* calls of one sequential write run

\* ------------------------------------------------------ program constants
CHARDEV_BUFSIZE_A == 128
CHARDEV_BUFSIZE_B == 16
EINVAL == 22
EBUSY == 16
ENOMEM == 12
EFAULT == 14
EFBIG == 27
ENODEV == 19
SEEK_SET == 0
SEEK_CUR == 1
SEEK_END == 2

Variants == {"A", "B", "C"}
Threads == 1..NThreads
NULL == 0

VARIABLES
  variant,       \* which build of the driver runs
  mutex,         \* chardev_mutex: 0 when free, else the thread holding it
  is_open,       \* chardev.is_open (variants A and C)
  buffer,        \* chardev.buffer: NULL or the allocation it points to
  heap,          \* the live kzalloc allocations
  mem,           \* the bytes of the device buffer, offset -> byte
  viol,          \* memory errors so far: "oob", "null", "uaf", "dfree"
  pc,            \* each thread's position
  file,          \* the struct file (handle) each thread's call is on
  count,         \* each thread's `count` (read, write), once it is read
  tmp,           \* each thread's llseek local `tmp`
  pos,           \* each thread's copy of the file position that read and
                 \* write get as *f_pos
  fstate,        \* each struct file: "closed", "opening", "open", "closing"
  f_pos,         \* each struct file's f_pos
  private_data,  \* each struct file's private_data: NULL or 1 (&chardev)
  last,          \* the last single call applied (function-level runs)
  kfix,          \* the fixed count of a sequential write run
  hist,          \* the calls of a sequential run, in order
  life           \* the module: where init / exit stand, what they did

vars == <<variant, mutex, is_open, buffer, heap, mem, viol, pc, file, count,
          tmp, pos, fstate, f_pos, private_data, last, kfix, hist, life>>

\* ------------------------------------------------------ machine integers
\* a > b for two unsigned 64-bit words
UGT(a, b) == IF (a < 0) = (b < 0) THEN a > b ELSE a < 0

\* min(c, m) for an unsigned word c and a small m >= 0
MinU(c, m) == IF c < 0 \/ c > m THEN m ELSE c

\* the i-th byte (i >= 0) lies within the first k bytes, k an unsigned word
Covered(i, k) == i >= 0 /\ (k < 0 \/ i < k)

W(n) == [hi |-> 0, lo |-> n]
AddW(a, b) == [hi |-> a.hi + b.hi, lo |-> a.lo + b.lo]
\* signed 64-bit wrap-around (the kernel is built with -fno-strict-overflow)
WrapS64(a) ==
  IF a.hi >= 1 /\ a.lo >= 0 THEN [hi |-> a.hi - 2, lo |-> a.lo]
  ELSE IF a.hi <= -1 /\ a.lo < 0 THEN [hi |-> a.hi + 2, lo |-> a.lo]
  ELSE a
GtW(a, c) == a.hi > 0 \/ (a.hi = 0 /\ a.lo > c)
LtW(a, c) == a.hi < 0 \/ (a.hi = 0 /\ a.lo < c)

\* ---------------------------------------------------------- user memory
\* A user buffer u = [base, step]: its i-th byte.
UserByte(u, i) == (u.base + u.step * i) % 256

\* A user range is accessible for its first a bytes (a an unsigned word):
\* all of it, none of it, or its first byte only.
NoFault == -1
UserFaults == {NoFault, 0, 1}

\* copy_to_user / copy_from_user refuse a size above INT_MAX: they copy
\* nothing and return the size
INT_MAX == (2^30 - 1) + 2^30
CopyRefused(n) == UGT(n, INT_MAX)

\* copy_to_user / copy_from_user of n bytes copy k bytes and return n - k:
\* none when the size is refused, else as many as the user range allows
CopyCount(n, a) ==
  IF CopyRefused(n) THEN 0 ELSE IF UGT(n, a) THEN a ELSE n

\* the bytes of the kernel buffer a copy_from_user of n bytes writes: the
\* bytes it copies and the zeroes it pads a short copy with
CopyTouched(n) == IF CopyRefused(n) THEN 0 ELSE n

\* the k bytes at offset o lie inside a buffer of cap bytes
InBuf(o, k, cap) == k = 0 \/ (o >= 0 /\ k > 0 /\ o + k <= cap)

ZeroBuf(cap) == [j \in 0..(cap - 1) |-> 0]

\* mutant: the user bytes land at offset 0 whatever the cursor is
CopyIn_AtZero(m, o, u, n, k) ==
  [j \in DOMAIN m |-> IF Covered(j, k) THEN UserByte(u, j)
                      ELSE IF Covered(j, CopyTouched(n)) THEN 0 ELSE m[j]]

\* the buffer after copy_from_user(buffer + o, u, n) copied k of the n
\* bytes: the k user bytes, then zeroes over the n - k bytes not copied
CopyIn(m, o, u, n, k) ==
  [j \in DOMAIN m |-> IF Covered(j - o, k) THEN UserByte(u, j - o)
                      ELSE IF Covered(j - o, CopyTouched(n)) THEN 0 ELSE m[j]]

\* the buffer bytes a copy of k bytes from offset o hands to the user
CopyOut(m, o, k) ==
  [j \in {x \in DOMAIN m : Covered(x - o, k)} |-> m[j]]

MemViol(m, o, k, cap) ==
  IF k = 0 THEN {}
  ELSE IF DOMAIN m = {} THEN {"null"}
  ELSE IF InBuf(o, k, cap) THEN {} ELSE {"oob"}

\* ------------------------------------------- variant B: read, write, seek
WriteClamp(fpos, cnt) ==
  IF UGT(fpos + cnt, CHARDEV_BUFSIZE_B) THEN CHARDEV_BUFSIZE_B - fpos ELSE cnt

\* mutant: the read count is not clamped to the end of the buffer
ReadClamp_None(fpos, cnt) == cnt


ReadClamp(fpos, cnt) ==
  IF UGT(fpos + cnt, CHARDEV_BUFSIZE_B) THEN CHARDEV_BUFSIZE_B - fpos ELSE cnt

\* chardev_write between mutex_lock and mutex_unlock; u is the user buffer
\* and a the bytes of it that are accessible
chardev_write(m, fpos, cnt, u, a) ==
  LET n == WriteClamp(fpos, cnt)
      k == CopyCount(n, a) IN
  IF n = 0
    THEN [path |-> "efbig", ret |-> -EFBIG, fpos |-> fpos, mem |-> m,
          n |-> n, k |-> 0, viol |-> {}]
  ELSE IF k # n
    THEN [path |-> "efault", ret |-> -EFAULT, fpos |-> fpos,
          mem |-> CopyIn(m, fpos, u, n, k), n |-> n, k |-> k,
          viol |-> MemViol(m, fpos, CopyTouched(n), CHARDEV_BUFSIZE_B)]
  ELSE [path |-> "ok", ret |-> n, fpos |-> fpos + n,
        mem |-> CopyIn(m, fpos, u, n, k), n |-> n, k |-> k,
        viol |-> MemViol(m, fpos, CopyTouched(n), CHARDEV_BUFSIZE_B)]

\* mutant: a read that faults still advances the cursor
chardev_read_AdvancesOnFault(m, fpos, cnt, a) ==
  LET n == ReadClamp(fpos, cnt)
      k == CopyCount(n, a) IN
  [path |-> IF k # n THEN "efault" ELSE "ok",
   ret |-> IF k # n THEN -EFAULT ELSE n, fpos |-> fpos + n, mem |-> m,
   n |-> n, k |-> k, data |-> CopyOut(m, fpos, k),
   viol |-> MemViol(m, fpos, k, CHARDEV_BUFSIZE_B)]

\* chardev_read between mutex_lock and mutex_unlock; a is the bytes of the
\* user buffer that are accessible
chardev_read(m, fpos, cnt, a) ==
  LET n == ReadClamp(fpos, cnt)
      k == CopyCount(n, a) IN
  IF k # n
    THEN [path |-> "efault", ret |-> -EFAULT, fpos |-> fpos, mem |-> m,
          n |-> n, k |-> k, data |-> CopyOut(m, fpos, k),
          viol |-> MemViol(m, fpos, k, CHARDEV_BUFSIZE_B)]
  ELSE [path |-> "ok", ret |-> n, fpos |-> fpos + n, mem |-> m,
        n |-> n, k |-> k, data |-> CopyOut(m, fpos, k),
        viol |-> MemViol(m, fpos, k, CHARDEV_BUFSIZE_B)]

\* the switch of chardev_lseek: the target, or none for an unknown whence
SeekTarget(fpos, o, wh) ==
  IF wh = SEEK_SET THEN [known |-> TRUE, tmp |-> o]
  ELSE IF wh = SEEK_CUR THEN [known |-> TRUE, tmp |-> WrapS64(AddW(W(fpos), o))]
  ELSE IF wh = SEEK_END
    THEN [known |-> TRUE, tmp |-> WrapS64(AddW(W(CHARDEV_BUFSIZE_B), o))]
  ELSE [known |-> FALSE, tmp |-> W(0)]

\* mutant: a target below 0 is not refused
SeekOutOfRange_NoLower(t) == GtW(t, CHARDEV_BUFSIZE_B)


SeekOutOfRange(t) == GtW(t, CHARDEV_BUFSIZE_B) \/ LtW(t, 0)

\* chardev_lseek between mutex_lock and mutex_unlock
chardev_lseek(fpos, o, wh) ==
  LET s == SeekTarget(fpos, o, wh) IN
  IF ~s.known
    THEN [path |-> "einval", ret |-> -EINVAL, fpos |-> fpos]
  ELSE IF SeekOutOfRange(s.tmp)
    THEN [path |-> "einval", ret |-> -EINVAL, fpos |-> fpos]
  ELSE [path |-> "ok", ret |-> s.tmp.lo, fpos |-> s.tmp.lo]

\* ------------------------------------------------- function-level runs
\* One caller applies one call of variant B to a device state the driver can
\* be in, with a cursor the caller supplies (pread / pwrite hand the driver
\* any offset >= 0).  With one caller the host's load of the position, the
\* handler and the host's store of the position are one step: f_pos[1] is
\* the position before and after the call.
NoCall == [op |-> "none"]
\* chardev_init has returned 0 and chardev_exit has not been called
Loaded == [phase |-> "live", k |-> 0, rc |-> "0", log |-> << >>]
FnCursors == 0..(CHARDEV_BUFSIZE_B + MaxOver)
FnCounts == (0..MaxCount) \cup {-j : j \in 1..MaxWrap}
FnUsers == {[base |-> 1, step |-> 1], [base |-> 7, step |-> 0]}
FnMems == {ZeroBuf(CHARDEV_BUFSIZE_B),
           [j \in 0..(CHARDEV_BUFSIZE_B - 1) |-> 100 + j]}
FnOffs == {W(n) : n \in (-MaxOff)..MaxOff}
            \cup {[hi |-> 1, lo |-> -1], [hi |-> 1, lo |-> -2],
                  [hi |-> -1, lo |-> 0], [hi |-> -1, lo |-> 1]}
FnWhences == 0..MaxWhence

IdleThreads ==
  /\ pc = [t \in Threads |-> "idle"]
  /\ file = [t \in Threads |-> 0]
  /\ count = [t \in Threads |-> 0]
  /\ tmp = [t \in Threads |-> 0]
  /\ pos = [t \in Threads |-> 0]

\* variant B after chardev_init, with handle 1 open at cursor c
OneHandleB(c, m) ==
  /\ variant = "B"
  /\ mutex = 0
  /\ is_open = FALSE
  /\ buffer = 1
  /\ heap = {1}
  /\ mem = m
  /\ viol = {}
  /\ IdleThreads
  /\ fstate = [h \in Threads |-> IF h = 1 THEN "open" ELSE "closed"]
  /\ f_pos = [h \in Threads |-> IF h = 1 THEN c ELSE 0]
  /\ private_data = [h \in Threads |-> IF h = 1 THEN 1 ELSE NULL]

InitFn ==
  /\ \E c \in FnCursors, m \in FnMems : OneHandleB(c, m)
  /\ last = NoCall
  /\ kfix = 0
  /\ hist = << >>
  /\ life = Loaded

FnFrame ==
  UNCHANGED <<variant, mutex, is_open, buffer, heap, pc, file, count, tmp,
              pos, fstate, private_data, kfix, hist, life>>

FnWrite ==
  /\ last = NoCall /\ mutex = 0
  /\ \E cnt \in FnCounts, u \in FnUsers :
       \E a \in UserFaults :
         LET r == chardev_write(mem, f_pos[1], cnt, u, a) IN
         /\ f_pos' = [f_pos EXCEPT ![1] = r.fpos]
         /\ mem' = r.mem
         /\ viol' = viol \cup r.viol
         /\ last' = [op |-> "write", fpos |-> f_pos[1], count |-> cnt,
                     u |-> u, a |-> a, k |-> r.k, mem |-> mem, r |-> r]
  /\ FnFrame

FnRead ==
  /\ last = NoCall /\ mutex = 0
  /\ \E cnt \in FnCounts :
       \E a \in UserFaults :
         LET r == chardev_read(mem, f_pos[1], cnt, a) IN
         /\ f_pos' = [f_pos EXCEPT ![1] = r.fpos]
         /\ mem' = r.mem
         /\ viol' = viol \cup r.viol
         /\ last' = [op |-> "read", fpos |-> f_pos[1], count |-> cnt,
                     a |-> a, k |-> r.k, mem |-> mem, r |-> r]
  /\ FnFrame

FnLseek ==
  /\ last = NoCall /\ mutex = 0
  /\ \E o \in FnOffs, wh \in FnWhences :
       LET r == chardev_lseek(f_pos[1], o, wh) IN
       /\ f_pos' = [f_pos EXCEPT ![1] = r.fpos]
       /\ last' = [op |-> "lseek", fpos |-> f_pos[1], off |-> o,
                   whence |-> wh, mem |-> mem, r |-> r]
  /\ UNCHANGED <<mem, viol>>
  /\ FnFrame

NextFn == FnWrite \/ FnRead \/ FnLseek

SpecFn == InitFn /\ [][NextFn]_vars

\* --------------------------------------------- a sequential write run
\* One caller, one handle, cursor 0, no llseek: write(kfix) again and again
\* from a user buffer that is readable throughout.
RunCounts == (1..MaxCount) \cup {-j : j \in 1..MaxWrap}
RunUser == [base |-> 1, step |-> 1]

InitRun ==
  /\ OneHandleB(0, ZeroBuf(CHARDEV_BUFSIZE_B))
  /\ last = NoCall
  /\ kfix \in RunCounts
  /\ hist = << >>
  /\ life = Loaded

RunWrite ==
  /\ Len(hist) < MaxRun /\ mutex = 0
  /\ LET r == chardev_write(mem, f_pos[1], kfix, RunUser, NoFault) IN
     /\ f_pos' = [f_pos EXCEPT ![1] = r.fpos]
     /\ mem' = r.mem
     /\ viol' = viol \cup r.viol
     /\ hist' = Append(hist, [pos |-> f_pos[1], ret |-> r.ret])
  /\ UNCHANGED <<variant, mutex, is_open, buffer, heap, pc, file, count,
                 tmp, pos, fstate, private_data, last, kfix, life>>

NextRun == RunWrite

SpecRun == InitRun /\ [][NextRun]_vars

\* ------------------------------------ write, seek back, read (one caller)
\* One caller on one handle of variant B: a write at the cursor the file is
\* at, an llseek back to where the write started (by any of the three
\* origins), a read of as many bytes as the write returned.
TripFrame ==
  UNCHANGED <<variant, mutex, is_open, buffer, heap, pc, file, count, tmp,
              pos, fstate, private_data, last, kfix, life>>

TripWrite ==
  /\ hist = << >> /\ mutex = 0
  /\ \E cnt \in FnCounts, u \in FnUsers :
       \E a \in UserFaults :
         LET r == chardev_write(mem, f_pos[1], cnt, u, a) IN
         /\ f_pos' = [f_pos EXCEPT ![1] = r.fpos]
         /\ mem' = r.mem
         /\ viol' = viol \cup r.viol
         /\ hist' = <<[op |-> "write", fpos |-> f_pos[1], count |-> cnt,
                       u |-> u, a |-> a, k |-> r.k, mem |-> mem, r |-> r]>>
  /\ TripFrame

\* lseek(p, SEEK_SET), lseek(p - cursor, SEEK_CUR) or lseek(p - 16, SEEK_END)
TripSeek ==
  /\ Len(hist) = 1 /\ mutex = 0
  /\ hist[1].r.path = "ok" /\ hist[1].r.ret > 0
  /\ \E wh \in {SEEK_SET, SEEK_CUR, SEEK_END} :
       LET p == hist[1].fpos
           o == IF wh = SEEK_SET THEN W(p)
                ELSE IF wh = SEEK_CUR THEN W(p - f_pos[1])
                ELSE W(p - CHARDEV_BUFSIZE_B)
           r == chardev_lseek(f_pos[1], o, wh) IN
       /\ f_pos' = [f_pos EXCEPT ![1] = r.fpos]
       /\ hist' = Append(hist, [op |-> "lseek", fpos |-> f_pos[1], off |-> o,
                                whence |-> wh, r |-> r])
  /\ UNCHANGED <<mem, viol>>
  /\ TripFrame

TripRead ==
  /\ Len(hist) = 2 /\ mutex = 0
  /\ hist[2].r.path = "ok"
  /\ LET cnt == hist[1].r.ret IN
     \E a \in UserFaults :
       LET r == chardev_read(mem, f_pos[1], cnt, a) IN
       /\ f_pos' = [f_pos EXCEPT ![1] = r.fpos]
       /\ mem' = r.mem
       /\ viol' = viol \cup r.viol
       /\ hist' = Append(hist, [op |-> "read", fpos |-> f_pos[1],
                                count |-> cnt, a |-> a, k |-> r.k,
                                r |-> r])
  /\ TripFrame

NextTrip == TripWrite \/ TripSeek \/ TripRead

SpecTrip == InitFn /\ [][NextTrip]_vars

\* ------------------------------ variant A: write, one call (lines 29-47)
\* mutant: the write lands at the cursor
WriteOffsetA_Cursor(fpos) == fpos

\* copy_from_user(dev->buffer, ...): the destination is the buffer's start
WriteOffsetA(fpos) == 0

\* chardev_write of variant A; locked tells whether mutex_lock was reached
chardev_write_A(m, fpos, cnt, u, a) ==
  LET k == CopyCount(cnt, a) IN
  IF UGT(cnt, CHARDEV_BUFSIZE_A)
    THEN [path |-> "einval", ret |-> -EINVAL, fpos |-> fpos, mem |-> m,
          k |-> 0, locked |-> FALSE, viol |-> {}]
  ELSE IF k # cnt
    THEN [path |-> "efault", ret |-> -EFAULT, fpos |-> fpos,
          mem |-> CopyIn(m, WriteOffsetA(fpos), u, cnt, k), k |-> k,
          locked |-> TRUE,
          viol |-> MemViol(m, WriteOffsetA(fpos), CopyTouched(cnt),
                           CHARDEV_BUFSIZE_A)]
  ELSE [path |-> "ok", ret |-> cnt, fpos |-> fpos,
        mem |-> CopyIn(m, WriteOffsetA(fpos), u, cnt, k), k |-> k,
        locked |-> TRUE,
        viol |-> MemViol(m, WriteOffsetA(fpos), CopyTouched(cnt),
                         CHARDEV_BUFSIZE_A)]

FnCursorsA == (0..MaxOver)
                \cup (CHARDEV_BUFSIZE_A..(CHARDEV_BUFSIZE_A + MaxOver))
FnCountsA == (0..MaxOver)
               \cup ((CHARDEV_BUFSIZE_A - MaxOver)..(CHARDEV_BUFSIZE_A + MaxOver))
               \cup {-j : j \in 1..MaxWrap}
FnMemsA == {ZeroBuf(CHARDEV_BUFSIZE_A),
            [j \in 0..(CHARDEV_BUFSIZE_A - 1) |-> (100 + j) % 256]}

\* variant A with handle 1 open (its open allocated the buffer), cursor c
OneHandleA(c, m) ==
  /\ variant = "A"
  /\ mutex = 0
  /\ is_open = TRUE
  /\ buffer = 1
  /\ heap = {1}
  /\ mem = m
  /\ viol = {}
  /\ IdleThreads
  /\ fstate = [h \in Threads |-> IF h = 1 THEN "open" ELSE "closed"]
  /\ f_pos = [h \in Threads |-> IF h = 1 THEN c ELSE 0]
  /\ private_data = [h \in Threads |-> IF h = 1 THEN 1 ELSE NULL]

InitFnA ==
  /\ \E c \in FnCursorsA, m \in FnMemsA : OneHandleA(c, m)
  /\ last = NoCall
  /\ kfix = 0
  /\ hist = << >>
  /\ life = Loaded

FnWriteA ==
  /\ last = NoCall /\ mutex = 0
  /\ \E cnt \in FnCountsA, u \in FnUsers :
       \E a \in UserFaults :
         LET r == chardev_write_A(mem, f_pos[1], cnt, u, a) IN
         /\ f_pos' = [f_pos EXCEPT ![1] = r.fpos]
         /\ mem' = r.mem
         /\ viol' = viol \cup r.viol
         /\ last' = [op |-> "write", fpos |-> f_pos[1], count |-> cnt,
                     u |-> u, a |-> a, k |-> r.k, mem |-> mem, r |-> r]
  /\ FnFrame

NextFnA == FnWriteA

SpecFnA == InitFnA /\ [][NextFnA]_vars

\* ------------------------------------------------- concurrent callers
\* The host (VFS) side.  Every open() gets a struct file of its own, numbered
\* by the thread that opens it; read / write / llseek come on a file whose open
\* succeeded, from any thread that shares it; release is called once, when the
\* file is closed and no call on it is in flight, and only if the driver's
\* file_operations has a release.  A call's arguments are drawn by the step
\* that models the first statement reading them.
HasRelease(v) == v \in {"A", "B"}
HasWrite(v) == v \in {"A", "B"}
HasRead(v) == v = "B"
HasLseek(v) == v = "B"

\* a count that fills the buffer, one above the larger capacity, and
\* 2^64 - 16, which makes *f_pos + count wrap at the end of the buffer
ConcCounts == {CHARDEV_BUFSIZE_B, CHARDEV_BUFSIZE_A + 1, -CHARDEV_BUFSIZE_B}
ConcSeeks == {<<W(0), SEEK_SET>>, <<W(CHARDEV_BUFSIZE_B), SEEK_CUR>>,
              <<W(0), SEEK_END + 1>>}
ConcUser == [base |-> 1, step |-> 0]
\* a user range that is readable and writable, or faults at its first byte
ConcFaults == {NoFault, 0}

\* the driver state after a successful module init
Init ==
  /\ variant \in Variants
  /\ mutex = 0
  /\ is_open = FALSE
  /\ buffer = IF variant = "B" THEN 1 ELSE NULL
  /\ heap = IF variant = "B" THEN {1} ELSE {}
  /\ mem = IF variant = "B" THEN ZeroBuf(CHARDEV_BUFSIZE_B) ELSE << >>
  /\ viol = {}
  /\ IdleThreads
  /\ fstate = [h \in Threads |-> "closed"]
  /\ f_pos = [h \in Threads |-> 0]
  /\ private_data = [h \in Threads |-> NULL]
  /\ last = NoCall
  /\ kfix = 0
  /\ hist = << >>
  /\ life = Loaded

Seq0 == UNCHANGED <<variant, last, kfix, hist, life>>
Dev0 == UNCHANGED <<is_open, buffer, heap, mem, viol>>
Args0 == UNCHANGED <<file, count, tmp, pos>>
Files0 == UNCHANGED <<fstate, f_pos, private_data>>

Goto(t, p) == pc' = [pc EXCEPT ![t] = p]

\* the call returns: the thread's locals die
Finish(t) ==
  /\ pc' = [pc EXCEPT ![t] = "idle"]
  /\ file' = [file EXCEPT ![t] = 0]
  /\ count' = [count EXCEPT ![t] = 0]
  /\ tmp' = [tmp EXCEPT ![t] = 0]
  /\ pos' = [pos EXCEPT ![t] = 0]

mutex_lock(t) == mutex = 0 /\ mutex' = t
mutex_unlock(t) == mutex' = 0

\* open() returned rv: the file is open, or is dropped
OpenReturns(t, rv) ==
  /\ fstate' = [fstate EXCEPT ![file[t]] = IF rv = 0 THEN "open" ELSE "closed"]
  /\ private_data' = IF rv = 0 THEN private_data
                     ELSE [private_data EXCEPT ![file[t]] = NULL]
  /\ UNCHANGED f_pos
  /\ Finish(t)

\* release() returned: the file is gone
ReleaseReturns(t) ==
  /\ fstate' = [fstate EXCEPT ![file[t]] = "closed"]
  /\ private_data' = [private_data EXCEPT ![file[t]] = NULL]
  /\ UNCHANGED f_pos
  /\ Finish(t)

InFlight(h) == \E u \in Threads : file[u] = h

HostOpen(t) ==
  /\ pc[t] = "idle" /\ fstate[t] = "closed"
  /\ fstate' = [fstate EXCEPT ![t] = "opening"]
  /\ f_pos' = [f_pos EXCEPT ![t] = 0]
  /\ file' = [file EXCEPT ![t] = t]
  /\ Goto(t, IF variant = "A" THEN "A_open_enter"
             ELSE IF variant = "B" THEN "B_open_enter" ELSE "C_open_enter")
  /\ UNCHANGED <<mutex, private_data, count, tmp, pos>>
  /\ Dev0 /\ Seq0

HostClose(t) ==
  /\ pc[t] = "idle"
  /\ \E h \in Threads :
       /\ fstate[h] = "open" /\ ~InFlight(h)
       /\ IF HasRelease(variant)
            THEN /\ fstate' = [fstate EXCEPT ![h] = "closing"]
                 /\ file' = [file EXCEPT ![t] = h]
                 /\ Goto(t, IF variant = "A" THEN "A_release_lock"
                            ELSE "B_release")
                 /\ UNCHANGED private_data
            ELSE /\ fstate' = [fstate EXCEPT ![h] = "closed"]
                 /\ private_data' = [private_data EXCEPT ![h] = NULL]
                 /\ UNCHANGED <<file, pc>>
  /\ UNCHANGED <<mutex, f_pos, count, tmp, pos>>
  /\ Dev0 /\ Seq0

\* write(): the host copies the file's position into a local of the call
\* and hands .write a pointer to that local
HostWrite(t) ==
  /\ pc[t] = "idle" /\ HasWrite(variant)
  /\ \E h \in Threads :
       /\ fstate[h] = "open"
       /\ file' = [file EXCEPT ![t] = h]
       /\ pos' = [pos EXCEPT ![t] = f_pos[h]]
  /\ Goto(t, IF variant = "A" THEN "A_write_enter" ELSE "B_write_lock")
  /\ UNCHANGED <<mutex, count, tmp>>
  /\ Dev0 /\ Files0 /\ Seq0

\* read(): as write(), with .read
HostRead(t) ==
  /\ pc[t] = "idle" /\ HasRead(variant)
  /\ \E h \in Threads :
       /\ fstate[h] = "open"
       /\ file' = [file EXCEPT ![t] = h]
       /\ pos' = [pos EXCEPT ![t] = f_pos[h]]
  /\ Goto(t, "B_read_lock")
  /\ UNCHANGED <<mutex, count, tmp>>
  /\ Dev0 /\ Files0 /\ Seq0

\* lseek(): .llseek gets the file itself and works on filp->f_pos
HostLseek(t) ==
  /\ pc[t] = "idle" /\ HasLseek(variant)
  /\ \E h \in Threads :
       /\ fstate[h] = "open"
       /\ file' = [file EXCEPT ![t] = h]
  /\ Goto(t, "B_lseek_lock")
  /\ UNCHANGED <<mutex, count, tmp, pos>>
  /\ Dev0 /\ Files0 /\ Seq0

\* .read / .write returned count[t] >= 0: the host stores the call's
\* position back into the file, and the call returns
HostStorePos(t) ==
  /\ pc[t] = "host_store"
  /\ f_pos' = [f_pos EXCEPT ![file[t]] = pos[t]]
  /\ Finish(t)
  /\ UNCHANGED <<mutex, fstate, private_data>> /\ Dev0 /\ Seq0

\* ------------------------------------------------ variant A (lines 1-135)
\* the device-number test of chardev_open; the inode is the caller's
A_open_enter(t) ==
  /\ pc[t] = "A_open_enter"
  /\ \E match \in BOOLEAN :
       Goto(t, IF match THEN "A_open_lock" ELSE "A_open_nodev")
  /\ UNCHANGED mutex /\ Args0 /\ Dev0 /\ Files0 /\ Seq0

A_open_nodev(t) ==
  /\ pc[t] = "A_open_nodev"
  /\ OpenReturns(t, -ENODEV)
  /\ UNCHANGED mutex /\ Dev0 /\ Seq0

A_open_lock(t) ==
  /\ pc[t] = "A_open_lock"
  /\ mutex_lock(t)
  /\ Goto(t, "A_open_check")
  /\ Args0 /\ Dev0 /\ Files0 /\ Seq0

\* mutant: open does not look at is_open
A_open_check_never_busy(t) ==
  /\ pc[t] = "A_open_check"
  /\ Goto(t, "A_open_alloc")
  /\ UNCHANGED mutex /\ Args0 /\ Dev0 /\ Files0 /\ Seq0

\* mutant: the lock is dropped between the is_open test and the is_open set
A_open_check_unlocked(t) ==
  /\ pc[t] = "A_open_check"
  /\ Goto(t, IF is_open THEN "A_open_busy" ELSE "A_open_alloc")
  /\ mutex' = 0
  /\ Args0 /\ Dev0 /\ Files0 /\ Seq0


A_open_check(t) ==
  /\ pc[t] = "A_open_check"
  /\ Goto(t, IF is_open THEN "A_open_busy" ELSE "A_open_alloc")
  /\ UNCHANGED mutex /\ Args0 /\ Dev0 /\ Files0 /\ Seq0

\* mutant: the Busy path resets is_open
A_open_busy_clears(t) ==
  /\ pc[t] = "A_open_busy"
  /\ mutex_unlock(t)
  /\ OpenReturns(t, -EBUSY)
  /\ is_open' = FALSE
  /\ UNCHANGED <<buffer, heap, mem, viol>> /\ Seq0


A_open_busy(t) ==
  /\ pc[t] = "A_open_busy"
  /\ mutex_unlock(t)
  /\ OpenReturns(t, -EBUSY)
  /\ Dev0 /\ Seq0

\* kzalloc: a fresh zero-filled allocation, or NULL
kzalloc(ok) == IF ok THEN CHOOSE a \in 1..(Cardinality(heap) + 1) : a \notin heap
               ELSE NULL

\* mutant: is_open is set before the result of kzalloc is tested
A_open_alloc_marks(t) ==
  /\ pc[t] = "A_open_alloc"
  /\ \E ok \in BOOLEAN :
       LET a == kzalloc(ok) IN
       /\ buffer' = a
       /\ heap' = IF a = NULL THEN heap ELSE heap \cup {a}
       /\ mem' = IF a = NULL THEN << >> ELSE ZeroBuf(CHARDEV_BUFSIZE_A)
       /\ Goto(t, IF a = NULL THEN "A_open_nomem" ELSE "A_open_set")
  /\ is_open' = TRUE
  /\ UNCHANGED <<mutex, viol>> /\ Args0 /\ Files0 /\ Seq0

A_open_alloc(t) ==
  /\ pc[t] = "A_open_alloc"
  /\ \E ok \in BOOLEAN :
       LET a == kzalloc(ok) IN
       /\ buffer' = a
       /\ heap' = IF a = NULL THEN heap ELSE heap \cup {a}
       /\ mem' = IF a = NULL THEN << >> ELSE ZeroBuf(CHARDEV_BUFSIZE_A)
       /\ Goto(t, IF a = NULL THEN "A_open_nomem" ELSE "A_open_set")
  /\ UNCHANGED <<mutex, is_open, viol>> /\ Args0 /\ Files0 /\ Seq0

A_open_nomem(t) ==
  /\ pc[t] = "A_open_nomem"
  /\ mutex_unlock(t)
  /\ OpenReturns(t, -ENOMEM)
  /\ Dev0 /\ Seq0

A_open_set(t) ==
  /\ pc[t] = "A_open_set"
  /\ is_open' = TRUE
  /\ private_data' = [private_data EXCEPT ![file[t]] = 1]
  /\ Goto(t, "A_open_unlock")
  /\ UNCHANGED <<mutex, buffer, heap, mem, viol, fstate, f_pos>>
  /\ Args0 /\ Seq0

A_open_unlock(t) ==
  /\ pc[t] = "A_open_unlock"
  /\ mutex_unlock(t)
  /\ OpenReturns(t, 0)
  /\ Dev0 /\ Seq0

A_release_lock(t) ==
  /\ pc[t] = "A_release_lock"
  /\ mutex_lock(t)
  /\ Goto(t, "A_release_body")
  /\ Args0 /\ Dev0 /\ Files0 /\ Seq0

\* kfree(p): p leaves the heap; freeing what is not live is a double free
kfree_viol(p) == IF p = NULL \/ p \in heap THEN {} ELSE {"dfree"}

\* mutant: release frees the buffer but leaves dev->buffer pointing at it
A_release_body_dangling(t) ==
  /\ pc[t] = "A_release_body"
  /\ viol' = viol \cup kfree_viol(buffer)
  /\ heap' = heap \ {buffer}
  /\ mem' = << >>
  /\ is_open' = FALSE
  /\ private_data' = [private_data EXCEPT ![file[t]] = NULL]
  /\ Goto(t, "A_release_unlock")
  /\ UNCHANGED <<mutex, buffer, fstate, f_pos>> /\ Args0 /\ Seq0

A_release_body(t) ==
  /\ pc[t] = "A_release_body"
  /\ IF private_data[file[t]] = NULL
       THEN /\ viol' = viol \cup {"null"}
            /\ UNCHANGED <<heap, buffer, mem, is_open>>
       ELSE /\ viol' = viol \cup kfree_viol(buffer)
            /\ heap' = heap \ {buffer}
            /\ buffer' = NULL
            /\ mem' = << >>
            /\ is_open' = FALSE
  /\ private_data' = [private_data EXCEPT ![file[t]] = NULL]
  /\ Goto(t, "A_release_unlock")
  /\ UNCHANGED <<mutex, fstate, f_pos>> /\ Args0 /\ Seq0

A_release_unlock(t) ==
  /\ pc[t] = "A_release_unlock"
  /\ mutex_unlock(t)
  /\ ReleaseReturns(t)
  /\ Dev0 /\ Seq0

A_write_enter(t) ==
  /\ pc[t] = "A_write_enter"
  /\ \E c \in ConcCounts :
       /\ count' = [count EXCEPT ![t] = c]
       /\ Goto(t, IF UGT(c, CHARDEV_BUFSIZE_A) THEN "A_write_einval"
                  ELSE "A_write_lock")
  /\ UNCHANGED <<mutex, file, tmp, pos>> /\ Dev0 /\ Files0 /\ Seq0

A_write_einval(t) ==
  /\ pc[t] = "A_write_einval"
  /\ Finish(t)
  /\ UNCHANGED mutex /\ Dev0 /\ Files0 /\ Seq0

A_write_lock(t) ==
  /\ pc[t] = "A_write_lock"
  /\ mutex_lock(t)
  /\ Goto(t, "A_write_copy")
  /\ Args0 /\ Dev0 /\ Files0 /\ Seq0

\* copy_from_user(dev->buffer, buf, count)
A_write_copy(t) ==
  /\ pc[t] = "A_write_copy"
  /\ \E a \in ConcFaults :
       LET k == CopyCount(count[t], a) IN
       /\ mem' = CopyIn(mem, 0, ConcUser, count[t], k)
       /\ viol' = viol \cup
            (IF private_data[file[t]] = NULL THEN {"null"}
             ELSE MemViol(mem, 0, CopyTouched(count[t]), CHARDEV_BUFSIZE_A))
       /\ Goto(t, IF k # count[t] THEN "A_write_efault" ELSE "A_write_ok")
  /\ UNCHANGED <<mutex, is_open, buffer, heap>> /\ Args0 /\ Files0 /\ Seq0

A_write_efault(t) ==
  /\ pc[t] = "A_write_efault"
  /\ mutex_unlock(t)
  /\ Finish(t)
  /\ Dev0 /\ Files0 /\ Seq0

A_write_ok(t) ==
  /\ pc[t] = "A_write_ok"
  /\ mutex_unlock(t)
  /\ Goto(t, "host_store")
  /\ Args0 /\ Dev0 /\ Files0 /\ Seq0

\* ---------------------------------------------- variant B (lines 137-344)
B_open_enter(t) ==
  /\ pc[t] = "B_open_enter"
  /\ \E match \in BOOLEAN :
       IF match
         THEN /\ private_data' = [private_data EXCEPT ![file[t]] = 1]
              /\ Goto(t, "B_open_ret")
         ELSE /\ UNCHANGED private_data
              /\ Goto(t, "B_open_nodev")
  /\ UNCHANGED <<mutex, fstate, f_pos>> /\ Args0 /\ Dev0 /\ Seq0

B_open_nodev(t) ==
  /\ pc[t] = "B_open_nodev"
  /\ OpenReturns(t, -ENODEV)
  /\ UNCHANGED mutex /\ Dev0 /\ Seq0

B_open_ret(t) ==
  /\ pc[t] = "B_open_ret"
  /\ OpenReturns(t, 0)
  /\ UNCHANGED mutex /\ Dev0 /\ Seq0

B_release(t) ==
  /\ pc[t] = "B_release"
  /\ ReleaseReturns(t)
  /\ UNCHANGED mutex /\ Dev0 /\ Seq0

B_write_lock(t) ==
  /\ pc[t] = "B_write_lock"
  /\ mutex_lock(t)
  /\ Goto(t, "B_write_body")
  /\ Args0 /\ Dev0 /\ Files0 /\ Seq0

\* the access through chardev.buffer: a pointer that was freed (chardev_exit
\* leaves it) is not the NULL of a buffer never allocated
BufViol(v) ==
  IF v # {} /\ buffer # NULL /\ buffer \notin heap THEN {"uaf"} ELSE v

\* *f_pos is the position local of the call (HostWrite)
B_write_body(t) ==
  /\ pc[t] = "B_write_body"
  /\ \E c \in ConcCounts, a \in ConcFaults :
       LET r == chardev_write(mem, pos[t], c, ConcUser, a) IN
       /\ count' = [count EXCEPT ![t] = r.n]
       /\ mem' = r.mem
       /\ viol' = viol \cup BufViol(r.viol)
       /\ pos' = [pos EXCEPT ![t] = r.fpos]
       /\ Goto(t, IF r.path = "efbig" THEN "B_write_efbig"
                  ELSE IF r.path = "efault" THEN "B_write_efault"
                  ELSE "B_write_ok")
  /\ UNCHANGED <<mutex, is_open, buffer, heap, file, tmp>>
  /\ Files0 /\ Seq0

B_write_efbig(t) ==
  /\ pc[t] = "B_write_efbig"
  /\ mutex_unlock(t)
  /\ Finish(t)
  /\ Dev0 /\ Files0 /\ Seq0

\* mutant: the Fault path returns without mutex_unlock
B_write_efault_locked(t) ==
  /\ pc[t] = "B_write_efault"
  /\ Finish(t)
  /\ UNCHANGED mutex /\ Dev0 /\ Files0 /\ Seq0


B_write_efault(t) ==
  /\ pc[t] = "B_write_efault"
  /\ mutex_unlock(t)
  /\ Finish(t)
  /\ Dev0 /\ Files0 /\ Seq0

B_write_ok(t) ==
  /\ pc[t] = "B_write_ok"
  /\ mutex_unlock(t)
  /\ Goto(t, "host_store")
  /\ Args0 /\ Dev0 /\ Files0 /\ Seq0

B_read_lock(t) ==
  /\ pc[t] = "B_read_lock"
  /\ mutex_lock(t)
  /\ Goto(t, "B_read_body")
  /\ Args0 /\ Dev0 /\ Files0 /\ Seq0

\* *f_pos is the position local of the call (HostRead)
B_read_body(t) ==
  /\ pc[t] = "B_read_body"
  /\ \E c \in ConcCounts, a \in ConcFaults :
       LET r == chardev_read(mem, pos[t], c, a) IN
       /\ count' = [count EXCEPT ![t] = r.n]
       /\ viol' = viol \cup BufViol(r.viol)
       /\ pos' = [pos EXCEPT ![t] = r.fpos]
       /\ Goto(t, IF r.path = "efault" THEN "B_read_efault" ELSE "B_read_ok")
  /\ UNCHANGED <<mutex, is_open, buffer, heap, mem, file, tmp>>
  /\ Files0 /\ Seq0

B_read_efault(t) ==
  /\ pc[t] = "B_read_efault"
  /\ mutex_unlock(t)
  /\ Finish(t)
  /\ Dev0 /\ Files0 /\ Seq0

B_read_ok(t) ==
  /\ pc[t] = "B_read_ok"
  /\ mutex_unlock(t)
  /\ Goto(t, "host_store")
  /\ Args0 /\ Dev0 /\ Files0 /\ Seq0

B_lseek_lock(t) ==
  /\ pc[t] = "B_lseek_lock"
  /\ mutex_lock(t)
  /\ Goto(t, "B_lseek_body")
  /\ Args0 /\ Dev0 /\ Files0 /\ Seq0

B_lseek_body(t) ==
  /\ pc[t] = "B_lseek_body"
  /\ \E a \in ConcSeeks :
       LET r == chardev_lseek(f_pos[file[t]], a[1], a[2]) IN
       /\ f_pos' = [f_pos EXCEPT ![file[t]] = r.fpos]
       /\ tmp' = [tmp EXCEPT ![t] = IF r.path = "ok" THEN r.ret ELSE 0]
       /\ Goto(t, IF r.path = "ok" THEN "B_lseek_ok" ELSE "B_lseek_einval")
  /\ UNCHANGED <<mutex, file, count, pos, fstate, private_data>>
  /\ Dev0 /\ Seq0

B_lseek_einval(t) ==
  /\ pc[t] = "B_lseek_einval"
  /\ mutex_unlock(t)
  /\ Finish(t)
  /\ Dev0 /\ Files0 /\ Seq0

B_lseek_ok(t) ==
  /\ pc[t] = "B_lseek_ok"
  /\ mutex_unlock(t)
  /\ Finish(t)
  /\ Dev0 /\ Files0 /\ Seq0

\* ---------------------------------------------- variant C (lines 346-435)
C_open_enter(t) ==
  /\ pc[t] = "C_open_enter"
  /\ \E match \in BOOLEAN :
       Goto(t, IF match THEN "C_open_lock" ELSE "C_open_nodev")
  /\ UNCHANGED mutex /\ Args0 /\ Dev0 /\ Files0 /\ Seq0

C_open_nodev(t) ==
  /\ pc[t] = "C_open_nodev"
  /\ OpenReturns(t, -ENODEV)
  /\ UNCHANGED mutex /\ Dev0 /\ Seq0

C_open_lock(t) ==
  /\ pc[t] = "C_open_lock"
  /\ mutex_lock(t)
  /\ Goto(t, "C_open_check")
  /\ Args0 /\ Dev0 /\ Files0 /\ Seq0

C_open_check(t) ==
  /\ pc[t] = "C_open_check"
  /\ Goto(t, IF is_open THEN "C_open_busy" ELSE "C_open_set")
  /\ UNCHANGED mutex /\ Args0 /\ Dev0 /\ Files0 /\ Seq0

\* mutant: the Busy path returns with the mutex still held
C_open_busy_locked(t) ==
  /\ pc[t] = "C_open_busy"
  /\ OpenReturns(t, -EBUSY)
  /\ UNCHANGED mutex /\ Dev0 /\ Seq0

C_open_busy(t) ==
  /\ pc[t] = "C_open_busy"
  /\ mutex_unlock(t)
  /\ OpenReturns(t, -EBUSY)
  /\ Dev0 /\ Seq0

C_open_set(t) ==
  /\ pc[t] = "C_open_set"
  /\ is_open' = TRUE
  /\ private_data' = [private_data EXCEPT ![file[t]] = 1]
  /\ Goto(t, "C_open_unlock")
  /\ UNCHANGED <<mutex, buffer, heap, mem, viol, fstate, f_pos>>
  /\ Args0 /\ Seq0

C_open_unlock(t) ==
  /\ pc[t] = "C_open_unlock"
  /\ mutex_unlock(t)
  /\ OpenReturns(t, 0)
  /\ Dev0 /\ Seq0

\* the value the call of thread t is about to return
RetVal(t) ==
  CASE pc[t] \in {"A_open_nodev", "B_open_nodev", "C_open_nodev"} -> -ENODEV
    [] pc[t] \in {"A_open_busy", "C_open_busy"} -> -EBUSY
    [] pc[t] = "A_open_nomem" -> -ENOMEM
    [] pc[t] \in {"A_open_unlock", "B_open_ret", "C_open_unlock",
                  "A_release_unlock", "B_release"} -> 0
    [] pc[t] = "A_write_einval" -> -EINVAL
    [] pc[t] \in {"A_write_efault", "B_write_efault", "B_read_efault"} -> -EFAULT
    [] pc[t] \in {"A_write_ok", "B_write_ok", "B_read_ok", "host_store"}
         -> count[t]
    [] pc[t] = "B_write_efbig" -> -EFBIG
    [] pc[t] = "B_lseek_einval" -> -EINVAL
    [] pc[t] = "B_lseek_ok" -> tmp[t]

Next ==
  \E t \in Threads :
    \/ HostOpen(t) \/ HostClose(t) \/ HostWrite(t) \/ HostRead(t)
    \/ HostLseek(t) \/ HostStorePos(t)
    \/ A_open_enter(t) \/ A_open_nodev(t) \/ A_open_lock(t)
    \/ A_open_check(t) \/ A_open_busy(t) \/ A_open_alloc(t)
    \/ A_open_nomem(t) \/ A_open_set(t) \/ A_open_unlock(t)
    \/ A_release_lock(t) \/ A_release_body(t) \/ A_release_unlock(t)
    \/ A_write_enter(t) \/ A_write_einval(t) \/ A_write_lock(t)
    \/ A_write_copy(t) \/ A_write_efault(t) \/ A_write_ok(t)
    \/ B_open_enter(t) \/ B_open_nodev(t) \/ B_open_ret(t) \/ B_release(t)
    \/ B_write_lock(t) \/ B_write_body(t) \/ B_write_efbig(t)
    \/ B_write_efault(t) \/ B_write_ok(t)
    \/ B_read_lock(t) \/ B_read_body(t) \/ B_read_efault(t) \/ B_read_ok(t)
    \/ B_lseek_lock(t) \/ B_lseek_body(t) \/ B_lseek_einval(t)
    \/ B_lseek_ok(t)
    \/ C_open_enter(t) \/ C_open_nodev(t) \/ C_open_lock(t)
    \/ C_open_check(t) \/ C_open_busy(t) \/ C_open_set(t)
    \/ C_open_unlock(t)

Spec == Init /\ [][Next]_vars

\* --------------------------------------------------- fair scheduling
\* thread t takes the mutex
Acquire(t) ==
  \/ A_open_lock(t) \/ A_release_lock(t) \/ A_write_lock(t)
  \/ B_write_lock(t) \/ B_read_lock(t) \/ B_lseek_lock(t) \/ C_open_lock(t)

\* thread t executes any other statement of a handler, or of the host's
\* return path
Run(t) ==
  \/ A_open_enter(t) \/ A_open_nodev(t)
  \/ A_open_check(t) \/ A_open_busy(t) \/ A_open_alloc(t)
  \/ A_open_nomem(t) \/ A_open_set(t) \/ A_open_unlock(t)
  \/ A_release_body(t) \/ A_release_unlock(t)
  \/ A_write_enter(t) \/ A_write_einval(t)
  \/ A_write_copy(t) \/ A_write_efault(t) \/ A_write_ok(t)
  \/ B_open_enter(t) \/ B_open_nodev(t) \/ B_open_ret(t) \/ B_release(t)
  \/ B_write_body(t) \/ B_write_efbig(t)
  \/ B_write_efault(t) \/ B_write_ok(t)
  \/ B_read_body(t) \/ B_read_efault(t) \/ B_read_ok(t)
  \/ B_lseek_body(t) \/ B_lseek_einval(t) \/ B_lseek_ok(t)
  \/ C_open_enter(t) \/ C_open_nodev(t)
  \/ C_open_check(t) \/ C_open_busy(t) \/ C_open_set(t)
  \/ C_open_unlock(t)
  \/ HostStorePos(t)

\* A thread inside a handler keeps running (the scheduler is fair), and a
\* thread waiting in mutex_lock gets the mutex if it is free again and again
\* (waiters are served in order).  The host is free never to call.
FairSpec ==
  /\ Spec
  /\ \A t \in Threads : WF_vars(Run(t)) /\ SF_vars(Acquire(t))

\* ------------------------------------------------ module init and exit
\* what chardev_init acquires, in order: the device-number region
\* (alloc_chrdev_region), the class (class_create), the cdev (cdev_add), the
\* device node (device_create) and, in variant B, the buffer (kzalloc)
InitPlan(v) ==
  IF v = "B" THEN <<"region", "class", "cdev", "device", "buffer">>
  ELSE <<"region", "class", "cdev", "device">>

\* whether chardev_init tests the result of the step; variants A and C
\* ignore what cdev_add and device_create return
Checked(v, r) == v = "B" \/ r \in {"region", "class"}

\* the value chardev_init returns when the step fails
ErrOf(r) ==
  CASE r = "region" -> "rc of alloc_chrdev_region"
    [] r = "class" -> "PTR_ERR(chardev_class)"
    [] r = "cdev" -> "rc of cdev_add"
    [] r = "device" -> "PTR_ERR(dev)"
    [] r = "buffer" -> "-ENOMEM"

\* the releases of the error path, in program order.  Variant B: the labels
\* err_alloc, err_device_create, err_cdev_add, err_class_create fall through
\* to err_chrdev; variants A and C: the one unregister_chrdev_region
ErrChain(v) ==
  IF v = "B" THEN <<"device", "cdev", "class", "region">> ELSE <<"region">>

\* mutant: every goto lands one label too early
ErrEntry_Early(v, r) ==
  IF v = "B"
    THEN CASE r = "buffer" -> 1
           [] r = "device" -> 1
           [] r = "cdev" -> 2
           [] r = "class" -> 3
           [] r = "region" -> 4
  ELSE IF r = "class" THEN 1 ELSE 2

\* where the failing step enters the error path (past its end: return rc)
ErrEntry(v, r) ==
  IF v = "B"
    THEN CASE r = "buffer" -> 1
           [] r = "device" -> 2
           [] r = "cdev" -> 3
           [] r = "class" -> 4
           [] r = "region" -> 5
  ELSE IF r = "class" THEN 1 ELSE 2

\* what chardev_exit releases, in order; variants A and C call both
\* class_unregister and class_destroy
ExitPlan(v) ==
  IF v = "B" THEN <<"buffer", "device", "cdev", "class", "region">>
  ELSE <<"device", "cdev", "class", "class", "region">>

LifeFrame ==
  UNCHANGED <<variant, mutex, is_open, pc, file, count, tmp, pos, fstate,
              f_pos, private_data, last, kfix, hist>>

\* one acquisition of chardev_init, succeeding or failing
ModInitStep ==
  /\ life.phase = "init"
  /\ LET r == InitPlan(variant)[life.k]
         next == IF life.k = Len(InitPlan(variant))
                   THEN [phase |-> "live", k |-> 0]
                   ELSE [phase |-> "init", k |-> life.k + 1]
     IN \E ok \in BOOLEAN :
          /\ IF r = "buffer"
               THEN /\ buffer' = kzalloc(ok)
                    /\ heap' = IF ok THEN heap \cup {kzalloc(ok)} ELSE heap
                    /\ mem' = IF ok THEN ZeroBuf(CHARDEV_BUFSIZE_B) ELSE mem
               ELSE UNCHANGED <<buffer, heap, mem>>
          /\ life' =
               IF ok
                 THEN [phase |-> next.phase, k |-> next.k, rc |-> life.rc,
                       log |-> Append(life.log, <<"get", r>>)]
               ELSE IF Checked(variant, r)
                 THEN [phase |-> "unwind", k |-> ErrEntry(variant, r),
                       rc |-> ErrOf(r), log |-> life.log]
               ELSE [phase |-> next.phase, k |-> next.k, rc |-> life.rc,
                     log |-> life.log]
  /\ UNCHANGED viol
  /\ LifeFrame

\* one release of the error path of chardev_init, or its return rc
ModUnwind ==
  /\ life.phase = "unwind"
  /\ life' =
       IF life.k > Len(ErrChain(variant))
         THEN [life EXCEPT !.phase = "failed", !.k = 0]
         ELSE [life EXCEPT !.k = life.k + 1,
                           !.log = Append(@, <<"put", ErrChain(variant)[life.k]>>)]
  /\ UNCHANGED <<buffer, heap, mem, viol>>
  /\ LifeFrame

\* the host unloads the module: no call is in progress
ModExit ==
  /\ life.phase = "live"
  /\ \A t \in Threads : pc[t] = "idle"
  /\ life' = [life EXCEPT !.phase = "exit", !.k = 1]
  /\ UNCHANGED <<buffer, heap, mem, viol>>
  /\ LifeFrame

\* one release of chardev_exit; kfree(chardev.buffer) leaves the pointer
ModExitStep ==
  /\ life.phase = "exit"
  /\ LET r == ExitPlan(variant)[life.k] IN
     /\ IF r = "buffer"
          THEN /\ viol' = viol \cup kfree_viol(buffer)
               /\ heap' = heap \ {buffer}
               /\ mem' = << >>
          ELSE UNCHANGED <<heap, mem, viol>>
     /\ life' = [life EXCEPT
                   !.phase = IF life.k = Len(ExitPlan(variant))
                               THEN "gone" ELSE "exit",
                   !.k = IF life.k = Len(ExitPlan(variant))
                           THEN 0 ELSE life.k + 1,
                   !.log = Append(@, <<"put", r>>)]
  /\ UNCHANGED buffer
  /\ LifeFrame

\* the cdev is registered: cdev_add has succeeded and cdev_del has not run
CdevLive ==
  \E i \in DOMAIN life.log :
    /\ life.log[i] = <<"get", "cdev">>
    /\ \A j \in DOMAIN life.log : j > i => life.log[j] # <<"put", "cdev">>

\* the calls of thread t.  The device can be opened from the moment cdev_add
\* has registered it, while chardev_init is still running, until cdev_del;
\* a file that is open takes read, write, llseek and release whatever the
\* module is doing.
LifeCall(t) ==
  \/ CdevLive /\ HostOpen(t)
  \/ HostClose(t) \/ HostWrite(t) \/ HostRead(t) \/ HostLseek(t)
  \/ HostStorePos(t)
  \/ A_open_enter(t) \/ A_open_nodev(t) \/ A_open_lock(t)
  \/ A_open_check(t) \/ A_open_busy(t) \/ A_open_alloc(t)
  \/ A_open_nomem(t) \/ A_open_set(t) \/ A_open_unlock(t)
  \/ A_release_lock(t) \/ A_release_body(t) \/ A_release_unlock(t)
  \/ A_write_enter(t) \/ A_write_einval(t) \/ A_write_lock(t)
  \/ A_write_copy(t) \/ A_write_efault(t) \/ A_write_ok(t)
  \/ B_open_enter(t) \/ B_open_nodev(t) \/ B_open_ret(t) \/ B_release(t)
  \/ B_write_lock(t) \/ B_write_body(t) \/ B_write_efbig(t)
  \/ B_write_efault(t) \/ B_write_ok(t)
  \/ B_read_lock(t) \/ B_read_body(t) \/ B_read_efault(t) \/ B_read_ok(t)
  \/ B_lseek_lock(t) \/ B_lseek_body(t) \/ B_lseek_einval(t)
  \/ B_lseek_ok(t)
  \/ C_open_enter(t) \/ C_open_nodev(t) \/ C_open_lock(t)
  \/ C_open_check(t) \/ C_open_busy(t) \/ C_open_set(t)
  \/ C_open_unlock(t)

\* the module before insmod
InitLife ==
  /\ variant \in Variants
  /\ mutex = 0
  /\ is_open = FALSE
  /\ buffer = NULL
  /\ heap = {}
  /\ mem = << >>
  /\ viol = {}
  /\ IdleThreads
  /\ fstate = [h \in Threads |-> "closed"]
  /\ f_pos = [h \in Threads |-> 0]
  /\ private_data = [h \in Threads |-> NULL]
  /\ last = NoCall
  /\ kfix = 0
  /\ hist = << >>
  /\ life = [phase |-> "init", k |-> 1, rc |-> "0", log |-> << >>]

NextLife ==
  \/ ModInitStep \/ ModUnwind \/ ModExit \/ ModExitStep
  \/ \E t \in Threads : LifeCall(t)

SpecLife == InitLife /\ [][NextLife]_vars

\* ------------------------------------------------------------- claims
InCap(c) == 0 <= c /\ c <= CHARDEV_BUFSIZE_B

TracksIsOpen == variant \in {"A", "C"}
BusyPcs == {"A_open_busy", "C_open_busy"}
GrantedPcs == {"A_open_unlock", "C_open_unlock"}
OpenLockPcs == {"A_open_lock", "C_open_lock"}
OpenCheckPcs == {"A_open_check", "C_open_check"}
\* the positions between mutex_lock and mutex_unlock
LockedPcs ==
  {"A_open_check", "A_open_busy", "A_open_alloc", "A_open_nomem",
   "A_open_set", "A_open_unlock", "A_release_body", "A_release_unlock",
   "A_write_copy", "A_write_efault", "A_write_ok",
   "B_write_body", "B_write_efbig", "B_write_efault", "B_write_ok",
   "B_read_body", "B_read_efault", "B_read_ok",
   "B_lseek_body", "B_lseek_einval", "B_lseek_ok",
   "C_open_check", "C_open_busy", "C_open_set", "C_open_unlock"}
\* the positions waiting in mutex_lock
WaitPcs ==
  {"A_open_lock", "A_release_lock", "A_write_lock", "B_write_lock",
   "B_read_lock", "B_lseek_lock", "C_open_lock"}
\* the error exits that hold the mutex
ErrorExitPcs ==
  {"A_open_busy", "A_open_nomem", "A_write_efault", "B_write_efbig",
   "B_write_efault", "B_read_efault", "B_lseek_einval", "C_open_busy"}

\* a successful open of file h is outstanding: open set is_open for it and
\* its close has not returned
Outstanding(h) ==
  \/ fstate[h] \in {"open", "closing"}
  \/ fstate[h] = "opening"
       /\ \E t \in Threads : file[t] = h /\ pc[t] \in GrantedPcs

\* C1: on a device that tracks is_open, under every interleaving of open and
\* close by any number of callers, at most one successful open is outstanding.
C1_AtMostOneOpen ==
  TracksIsOpen => Cardinality({h \in Threads : Outstanding(h)}) <= 1

\* two opens race on the device: one is granted, the other waits for the lock
C1_Witness ==
  /\ TracksIsOpen
  /\ \E t, u \in Threads :
       t # u /\ pc[t] \in GrantedPcs /\ pc[u] \in OpenLockPcs

\* C2: in every variant that tracks is_open, once the successful open has been
\* closed the device is Closed again, so that the next open is not refused.
C2_ReopenAfterClose ==
  (TracksIsOpen /\ \A h \in Threads : ~Outstanding(h)) =>
    /\ ~is_open
    /\ \A t \in Threads : pc[t] \notin BusyPcs

\* C3: open on a device that is already Open fails with Busy and changes
\* nothing: is_open stays true, the buffer pointer, its contents and the
\* allocations are as before, the other files are untouched, and the lock is
\* free once the call returns.
C3_BusyOpenChangesNothing ==
  [][\A t \in Threads :
       /\ (pc[t] \in OpenCheckPcs /\ is_open /\ pc'[t] # pc[t]) =>
            /\ pc'[t] \in BusyPcs
            /\ RetVal(t)' = -EBUSY
            /\ UNCHANGED <<is_open, buffer, heap, mem, viol, fstate, f_pos,
                           private_data>>
       /\ (pc[t] \in BusyPcs /\ pc'[t] # pc[t]) =>
            /\ pc'[t] = "idle" /\ mutex' = 0
            /\ is_open /\ is_open'
            /\ UNCHANGED <<buffer, heap, mem, viol>>
            /\ \A h \in Threads \ {file[t]} :
                 /\ fstate'[h] = fstate[h]
                 /\ private_data'[h] = private_data[h]
                 /\ f_pos'[h] = f_pos[h]
            /\ fstate'[file[t]] = "closed"]_vars

\* an open is being refused while another file holds the device
C3_Witness ==
  \E t, h \in Threads :
    pc[t] \in BusyPcs /\ is_open /\ fstate[h] = "open" /\ file[t] # h

\* C4: every open, close, read, write and seek releases the lock on every exit
\* path: the lock is held only by a thread between its mutex_lock and its
\* mutex_unlock, so it is free whenever no call is in progress.
C4_LockReleasedOnEveryPath ==
  /\ mutex # 0 => pc[mutex] \in LockedPcs
  /\ (\A t \in Threads : pc[t] = "idle") => mutex = 0

\* a call is leaving on an error path while another call waits for the lock
C4_Witness ==
  \E t, u \in Threads :
    t # u /\ pc[t] \in ErrorExitPcs /\ mutex = t /\ pc[u] \in WaitPcs

\* C5: for every cursor in [0, capacity] and every count of the size_t range,
\* a read that does not fault (its user buffer is writable throughout)
\* returns min(count, capacity - cursor) and copies only bytes at buffer
\* offsets in [0, capacity).
C5_ReadBoundsClamp ==
  (last.op = "read" /\ InCap(last.fpos) /\ last.a = NoFault) =>
    /\ last.r.ret = MinU(last.count, CHARDEV_BUFSIZE_B - last.fpos)
    /\ "oob" \notin last.r.viol
    /\ DOMAIN last.r.data =
         {j \in 0..(CHARDEV_BUFSIZE_B - 1) :
            last.fpos <= j /\ j < last.fpos + last.r.ret}

\* C6: for every caller-supplied cursor >= capacity, a read copies no byte,
\* returns 0 and leaves the cursor where it was.
C6_ReadAtOrPastEnd ==
  (last.op = "read" /\ last.fpos >= CHARDEV_BUFSIZE_B) =>
    /\ last.r.ret = 0
    /\ last.k = 0
    /\ last.r.fpos = last.fpos

\* C7: with the cursor in [0, capacity], write fails with TooLarge exactly
\* when min(count, capacity - cursor) = 0, leaving buffer and cursor as they
\* were; otherwise, absent a fault (the user buffer is readable throughout),
\* it copies exactly that many bytes to offset cursor, returns that number
\* and advances the cursor by it.
C7_WriteClampOrTooLarge ==
  (last.op = "write" /\ InCap(last.fpos)) =>
    LET eff == MinU(last.count, CHARDEV_BUFSIZE_B - last.fpos) IN
    /\ (last.r.ret = -EFBIG) <=> (eff = 0)
    /\ (eff = 0) => (last.r.mem = last.mem /\ last.r.fpos = last.fpos)
    /\ (eff # 0 /\ last.a = NoFault) =>
         /\ last.r.ret = eff
         /\ last.r.fpos = last.fpos + eff
         /\ last.r.mem =
              [j \in 0..(CHARDEV_BUFSIZE_B - 1) |->
                 IF last.fpos <= j /\ j < last.fpos + eff
                   THEN UserByte(last.u, j - last.fpos) ELSE last.mem[j]]

\* C8: from cursor 0, repeated writes of a fixed count k > 0 succeed until
\* the cursor reaches capacity, each advancing the cursor by the bytes it
\* wrote, and every later write fails with TooLarge; with capacity 16 and
\* k = 4 exactly four writes succeed (cursor 0, 4, 8, 12, 16).
C8_SequentialWrites ==
  /\ \A i \in DOMAIN hist :
       /\ hist[i].pos =
            IF i = 1 THEN 0
            ELSE hist[i - 1].pos
                   + (IF hist[i - 1].ret = -EFBIG THEN 0 ELSE hist[i - 1].ret)
       /\ IF hist[i].pos < CHARDEV_BUFSIZE_B
            THEN hist[i].ret = MinU(kfix, CHARDEV_BUFSIZE_B - hist[i].pos)
            ELSE hist[i].ret = -EFBIG
  /\ kfix = 4 =>
       \A i \in DOMAIN hist :
         IF i <= 4 THEN hist[i] = [pos |-> 4 * (i - 1), ret |-> 4]
         ELSE hist[i] = [pos |-> 16, ret |-> -EFBIG]

\* C9: seek succeeds exactly when the origin is FromStart, FromCurrent or
\* FromEnd and the target (offset, cursor + offset, capacity + offset) lies in
\* [0, capacity]; it then sets the cursor to the target and returns it; in
\* every other case it fails with InvalidArgument.
C9_SeekTargetAndRange ==
  (last.op = "lseek") =>
    LET known == last.whence \in {SEEK_SET, SEEK_CUR, SEEK_END}
        target == IF last.whence = SEEK_SET THEN last.off
                  ELSE IF last.whence = SEEK_CUR
                    THEN AddW(W(last.fpos), last.off)
                  ELSE AddW(W(CHARDEV_BUFSIZE_B), last.off)
        inrange == target.hi = 0 /\ InCap(target.lo)
    IN IF known /\ inrange
         THEN /\ last.r.path = "ok"
              /\ last.r.ret = target.lo
              /\ last.r.fpos = target.lo
         ELSE /\ last.r.ret = -EINVAL
              /\ last.r.path = "einval"

C9_Witness ==
  /\ last.op = "lseek" /\ last.whence = SEEK_END /\ last.off = W(0)
  /\ last.r.ret = CHARDEV_BUFSIZE_B /\ f_pos[1] = CHARDEV_BUFSIZE_B

\* C10: after any sequence and interleaving of read, write and seek calls on
\* a file whose cursor starts at 0, failed calls included, the cursor lies in
\* [0, capacity].
C10_CursorInRange ==
  \A h \in Threads : InCap(f_pos[h])

\* the cursor of a shared file is at capacity, one call on it is failing and
\* another waits
C10_Witness ==
  \E t, u \in Threads :
    /\ t # u /\ file[t] = file[u]
    /\ pc[t] \in {"B_write_efbig", "B_lseek_einval", "B_read_efault"}
    /\ pc[u] \in {"B_write_lock", "B_read_lock", "B_lseek_lock"}
    /\ f_pos[file[t]] = CHARDEV_BUFSIZE_B

\* C11: if a write at cursor p stores n bytes d[0..n-1], the bytes of the
\* buffer outside [p, p+n) are what they were before the write, and after
\* seeking back to p a read of n bytes (that does not fault) returns exactly
\* d[0..n-1].
C11_WriteReadRoundTrip ==
  /\ (Len(hist) >= 1 /\ hist[1].r.path = "ok" /\ hist[1].r.ret > 0) =>
       LET w == hist[1] IN
       \A j \in 0..(CHARDEV_BUFSIZE_B - 1) :
         (j < w.fpos \/ j >= w.fpos + w.r.ret) => w.r.mem[j] = w.mem[j]
  /\ (Len(hist) = 3 /\ hist[3].r.path = "ok") =>
       LET w == hist[1]
           rd == hist[3] IN
       /\ hist[2].r.ret = w.fpos /\ rd.fpos = w.fpos
       /\ rd.r.ret = w.r.ret
       /\ DOMAIN rd.r.data = {j \in 0..(CHARDEV_BUFSIZE_B - 1) :
                                w.fpos <= j /\ j < w.fpos + w.r.ret}
       /\ \A j \in DOMAIN rd.r.data :
            rd.r.data[j] = UserByte(w.u, j - w.fpos)

\* four bytes 1,2,3,4 written in the middle of a non-zero buffer were read back
C11_Witness ==
  /\ Len(hist) = 3 /\ hist[3].r.path = "ok"
  /\ hist[1].fpos = 5 /\ hist[1].r.ret = 4
  /\ hist[1].u = [base |-> 1, step |-> 1]
  /\ hist[1].mem[0] = 100
  /\ hist[3].r.data = [j \in 5..8 |-> j - 4]

\* C12: the write of the 128-byte variant rejects every count > capacity
\* with InvalidArgument before it takes the lock and without touching the
\* buffer; for every count <= capacity it ignores the cursor: absent a fault
\* it copies the count bytes to buffer offsets [0, count) and returns count;
\* the cursor is never changed, whatever its value.
C12_WriteAtZeroOrInvalid ==
  (last.op = "write") =>
    /\ last.r.fpos = last.fpos /\ f_pos[1] = last.fpos
    /\ IF last.count < 0 \/ last.count > CHARDEV_BUFSIZE_A
         THEN /\ last.r.ret = -EINVAL
              /\ ~last.r.locked
              /\ last.r.mem = last.mem /\ mem = last.mem
              /\ last.r.viol = {}
         ELSE /\ last.r.ret # -EINVAL
              /\ last.r.locked
              /\ "oob" \notin last.r.viol
              /\ last.k = last.count =>
                   /\ last.r.ret = last.count
                   /\ mem = [j \in 0..(CHARDEV_BUFSIZE_A - 1) |->
                               IF j < last.count THEN UserByte(last.u, j)
                               ELSE last.mem[j]]

\* a full-capacity write at a cursor beyond the end of the buffer succeeded
C12_Witness ==
  /\ last.op = "write" /\ last.fpos = CHARDEV_BUFSIZE_A + 1
  /\ last.count = CHARDEV_BUFSIZE_A /\ last.r.ret = CHARDEV_BUFSIZE_A
  /\ mem[CHARDEV_BUFSIZE_A - 1] = UserByte(last.u, CHARDEV_BUFSIZE_A - 1)
  /\ mem # last.mem

\* C13: a read that fails with Fault and a seek that fails with
\* InvalidArgument (unknown origin or target out of range) leave the device
\* state unchanged: the cursor, the buffer (pointer, allocation, contents)
\* and is_open are exactly what they were before the call.
C13_FailedReadSeekChangeNothing ==
  [][((last'.op = "read" /\ last'.r.path = "efault")
        \/ (last'.op = "lseek" /\ last'.r.path = "einval")) =>
       UNCHANGED <<f_pos, mem, buffer, heap, is_open>>]_vars

\* a read in mid-buffer faulted after one byte had been copied out
C13_Witness ==
  /\ last.op = "read" /\ last.r.path = "efault" /\ last.k = 1
  /\ last.fpos = 3 /\ last.count > 1
  /\ f_pos[1] = 3 /\ mem = last.mem

\* the positions whose next statement reads or writes is_open, the buffer
\* pointer, the buffer bytes or the cursor
SharedAccessPcs ==
  {"A_open_check", "A_open_alloc", "A_open_set", "A_release_body",
   "A_write_copy", "B_write_body", "B_read_body", "B_lseek_body",
   "C_open_check", "C_open_set"}

\* C14: under every interleaving, is_open, the buffer (pointer, allocation,
\* contents) and the cursor of a file in use are read or written only by a
\* caller that holds the lock: a caller about to touch them holds it, at
\* most one caller is at such a statement, and every step that changes one
\* of them is a step of the lock holder, so no caller sees a copy half done.
\* (The cursor of a file is filp->f_pos; read and write reach it through the
\* position local the host loads before the handler and stores after it.)
C14_SharedStateOnlyUnderLock ==
  /\ [](\A t \in Threads : pc[t] \in SharedAccessPcs => mutex = t)
  /\ [](Cardinality({t \in Threads : pc[t] \in SharedAccessPcs}) <= 1)
  /\ [][(\/ is_open' # is_open
         \/ buffer' # buffer
         \/ heap' # heap
         \/ mem' # mem
         \/ \E h \in Threads : fstate[h] # "closed" /\ f_pos'[h] # f_pos[h])
        => /\ mutex # 0
           /\ pc[mutex] \in SharedAccessPcs
           /\ pc'[mutex] # pc[mutex]]_vars

\* C15: under a fair lock and a fair scheduler every invoked open, close,
\* read, write or seek eventually returns, whatever the other callers do.
C15_EveryCallReturns ==
  \A t \in Threads : (pc[t] # "idle") ~> (pc[t] = "idle")

\* a call waits in mutex_lock while another caller holds the mutex
C15_Witness ==
  \E t, u \in Threads :
    t # u /\ pc[t] \in WaitPcs /\ mutex = u /\ pc[u] \in LockedPcs

\* C16: at teardown every live buffer is released exactly once, whatever the
\* open state of the device, and no buffer is ever released twice: once
\* chardev_exit has returned no allocation is live, and no kfree was ever
\* applied to a buffer already released.
C16_TeardownReleasesBuffers ==
  /\ "dfree" \notin viol
  /\ life.phase = "gone" => heap = {}

\* C17: in the allocate-on-open variant, whenever the lock is free, is_open
\* is true iff the buffer is allocated, exactly one allocation is live when
\* the device is Open and none when it is Closed, and nothing was freed
\* twice; a successful open holds a zero-filled buffer of capacity bytes.
C17_OpenIffBufferAllocated ==
  (variant = "A") =>
    /\ "dfree" \notin viol
    /\ (mutex = 0) =>
         /\ is_open <=> (buffer # NULL)
         /\ heap = IF is_open THEN {buffer} ELSE {}
         /\ Cardinality(heap) = IF is_open THEN 1 ELSE 0
         /\ is_open <=> (DOMAIN mem = 0..(CHARDEV_BUFSIZE_A - 1))
    /\ \A t \in Threads :
         (pc[t] \in {"A_open_set", "A_open_unlock"}) =>
           /\ buffer # NULL /\ buffer \in heap
           /\ mem = ZeroBuf(CHARDEV_BUFSIZE_A)

\* the device is Open with data in its buffer and the lock is free, while
\* another caller's file is closed
C17_Witness ==
  /\ variant = "A" /\ mutex = 0 /\ is_open /\ heap = {buffer}
  /\ \E j \in DOMAIN mem : mem[j] # 0
  /\ \E t \in Threads : fstate[t] = "closed" /\ pc[t] = "idle"

\* C18: when kzalloc fails during open, open returns OutOfMemory and the
\* device stays Closed: is_open is false, no buffer is held or live, the
\* lock is released by the return, the failed file is dropped, and an open
\* that then finds the device Closed is not refused: it goes on to allocate
\* and, when its allocation succeeds, is granted.
C18_OpenOutOfMemory ==
  /\ [](\A t \in Threads :
          pc[t] = "A_open_nomem" =>
            /\ RetVal(t) = -ENOMEM
            /\ mutex = t
            /\ ~is_open /\ buffer = NULL /\ heap = {} /\ mem = << >>)
  /\ [][\A t \in Threads :
          /\ (pc[t] = "A_open_nomem" /\ pc'[t] # pc[t]) =>
               /\ pc'[t] = "idle" /\ mutex' = 0
               /\ ~is_open' /\ buffer' = NULL /\ heap' = {}
               /\ fstate'[file[t]] = "closed"
               /\ private_data'[file[t]] = NULL
          /\ (pc[t] = "A_open_check" /\ ~is_open /\ pc'[t] # pc[t]) =>
               pc'[t] = "A_open_alloc"
          /\ (pc[t] = "A_open_alloc" /\ pc'[t] # pc[t] /\ buffer' # NULL) =>
               pc'[t] = "A_open_set"
          /\ (pc[t] = "A_open_set" /\ pc'[t] # pc[t]) =>
               (pc'[t] = "A_open_unlock" /\ is_open')
          /\ (pc[t] = "A_open_unlock" /\ pc'[t] # pc[t]) =>
               (fstate'[file[t]] = "open" /\ is_open' /\ mutex' = 0)]_vars

\* an open is failing with OutOfMemory while the next open waits for the lock
C18_Witness ==
  \E t, u \in Threads :
    /\ t # u /\ pc[t] = "A_open_nomem" /\ mutex = t
    /\ pc[u] = "A_open_lock"

\* C19: in the allocate-on-open variant a write issued on a file between its
\* successful open and its close, under every interleaving with opens
\* (failing ones too) and closes by other callers, finds the device Open
\* with a buffer that is non-null and live: no write copies into a freed or
\* absent buffer, and none outside it.
C19_WriteFindsLiveBuffer ==
  (variant = "A") =>
    /\ viol = {}
    /\ \A t \in Threads :
         (pc[t] \in {"A_write_enter", "A_write_einval", "A_write_lock",
                     "A_write_copy", "A_write_efault", "A_write_ok"}) =>
           /\ fstate[file[t]] = "open"
           /\ private_data[file[t]] # NULL
           /\ is_open
           /\ buffer # NULL /\ buffer \in heap
           /\ DOMAIN mem = 0..(CHARDEV_BUFSIZE_A - 1)

\* a write is about to copy while another caller's open is being refused
C19_Witness ==
  \E t, u \in Threads :
    /\ t # u /\ variant = "A"
    /\ pc[t] = "A_write_lock" /\ pc[u] = "A_open_busy"

\* the five resources of the allocate-once variant, in the claimed order
Resources == <<"region", "class", "cdev", "device", "buffer">>
\* the first n acquired in order; the first n released in reverse order
Gets(n) == [i \in 1..n |-> <<"get", Resources[i]>>]
Puts(n) == [i \in 1..n |-> <<"put", Resources[n + 1 - i]>>]
IsGet(e) == e[1] = "get"

\* C20: in the allocate-once variant chardev_init acquires region, class,
\* cdev, device node, buffer in this order; when step k fails it returns that
\* step's error after releasing exactly the k-1 resources acquired before,
\* each once, in reverse order; chardev_exit releases all five, each once,
\* in reverse order of acquisition.
C20_InitUnwindsInReverse ==
  (variant = "B") =>
    /\ \E n \in 0..5 : SelectSeq(life.log, IsGet) = Gets(n)
    /\ life.phase = "unwind" =>
         \E n \in 0..4, m \in 0..4 :
           /\ m <= n /\ life.rc = ErrOf(Resources[n + 1])
           /\ life.log = Gets(n) \o SubSeq(Puts(n), 1, m)
    /\ life.phase = "failed" =>
         /\ \E n \in 0..4 :
              /\ life.rc = ErrOf(Resources[n + 1])
              /\ life.log = Gets(n) \o Puts(n)
         /\ heap = {} /\ buffer = NULL
    /\ life.phase = "live" =>
         /\ life.rc = "0" /\ life.log = Gets(5)
         /\ buffer # NULL /\ heap = {buffer}
    /\ life.phase = "gone" =>
         /\ life.log = Gets(5) \o Puts(5)
         /\ heap = {}
    /\ "dfree" \notin viol

\* kzalloc, the fifth step, failed: init returned -ENOMEM having released
\* the device node, the cdev, the class and the region
C20_Witness ==
  /\ variant = "B" /\ life.phase = "failed" /\ life.rc = "-ENOMEM"
  /\ Len(life.log) = 8
  /\ life.log[5] = <<"put", "device">> /\ life.log[8] = <<"put", "region">>
====
